---------------------------- MODULE Spec2Model ----------------------------
(***************************************************************************)
(* Your-Rich-Dad: the budget calculators of src/App.tsx and the            *)
(* components they feed.                                                   *)
(*                                                                         *)
(* Numbers.  The program computes with IEEE doubles; the model computes    *)
(* with fixed-point numbers and rounds every product to the nearest unit.  *)
(*   - annual amounts (income, taxes) are counted in annual units,         *)
(*     2000 to the dollar (see HalfDollars);                               *)
(*   - monthly amounts (netMonthlyIncome, allocations) are counted in      *)
(*     monthly units, 24000 to the dollar, so that an annual amount of x   *)
(*     annual units divided by 12 is exactly x monthly units;              *)
(*   - rates are fractions num/den, applied by MulRate;                    *)
(*   - a comparison of a computed sum against the epsilon that is exact    *)
(*     equality in the model goes either way, as the rounding of the       *)
(*     doubles decides it in the program (see exceedsEpsilon).             *)
(***************************************************************************)
EXTENDS Integers, Sequences, FiniteSets, TLC

VARIABLES
    income,          \* App: useState<number>(60000), annual units
    selectedState,   \* App: useState<string>('California')
    budgetData,      \* App: useState<IBudgetBreakdown | null>(null)
    effectPending,   \* App: the [income, selectedState] effect is scheduled
    edits,           \* number of updateAllocation calls since the last calculateBudget
    last,            \* the last operation, its arguments and the budgetData it found
    monthlyContribution,      \* InvestmentChart: the prop, in cents
    investRatio,              \* InvestmentChart: useState(0.4), in twentieths
    investReturnRatePercent,  \* InvestmentChart: in hundredths of a percent
    bankReturnRatePercent,    \* InvestmentChart: in hundredths of a percent
    data,                     \* InvestmentChart: the series of the useMemo
    loanBalance,     \* HousingSearch: useState(300000), in cents
    interestRate,    \* HousingSearch: useState(6.5), in hundredths of a percent
    monthlyPayment,  \* HousingSearch: useState(2500), in cents
    extraPrincipal,  \* HousingSearch: useState(0), in cents
    mortgageData,    \* HousingSearch: the result of the useMemo, or Null
    sim,             \* HousingSearch: the position and locals of the useMemo's loop
    apiKey,          \* geminiService: process.env.API_KEY is set
    upstreamCalls,   \* geminiService: number of ai.models.generateContent calls made
    timers,          \* AiAdvisor: the pending setTimeout callbacks of the debounce effect
    inFlight,        \* AiAdvisor: the fetchAdvice calls awaiting getSmartFinancialAdvice
    advice,          \* AiAdvisor: useState<AiAdviceResponse | null>(null)
    loading,         \* AiAdvisor: useState(false)
    deepInFlight,    \* AiAdvisor: the handleDeepDive calls awaiting getDeepDivePlan
    deepPlan,        \* AiAdvisor: useState<string | null>(null)
    deepLoading,     \* AiAdvisor: useState(false)
    location,        \* HousingSearch: useState(defaultLocation)
    searchInFlight,  \* HousingSearch: the handleSearch calls awaiting findHousingOptions
    results,         \* HousingSearch: useState<AiAdviceResponse | null>(null)
    searchLoading,   \* HousingSearch: useState(false), the loading flag of the search
    hist             \* counters of the run: user events, changes, requests, ticks, rejections

appVars == <<income, selectedState, budgetData, effectPending, edits, last>>

chartVars ==
    <<monthlyContribution, investRatio, investReturnRatePercent, bankReturnRatePercent, data>>

mortgageVars ==
    <<loanBalance, interestRate, monthlyPayment, extraPrincipal, mortgageData, sim>>

aiVars ==
    <<apiKey, upstreamCalls, timers, inFlight, advice, loading, deepInFlight, deepPlan,
      deepLoading, location, searchInFlight, results, searchLoading, hist>>

vars == <<appVars, chartVars, mortgageVars, aiVars>>

\* What the actions of one component leave alone.
notAppVars == <<chartVars, mortgageVars, aiVars>>
notChartVars == <<appVars, mortgageVars, aiVars>>
notMortgageVars == <<appVars, chartVars, aiVars>>
notAiVars == <<effectPending, edits, last, chartVars, mortgageVars>>

-----------------------------------------------------------------------------
(* Arithmetic *)

Max(a, b) == IF a >= b THEN a ELSE b
Min(a, b) == IF a <= b THEN a ELSE b
Abs(a) == IF a >= 0 THEN a ELSE -a

\* x * num / den rounded to the nearest unit (halves up), computed without
\* forming x * num: x = q * den + r with 0 <= r < den.
MulRate(x, num, den) ==
    (x \div den) * num + (2 * (x % den) * num + den) \div (2 * den)

\* h half dollars in annual units; d dollars in annual units.
HalfDollars(h) == h * 1000
Dollars(d) == HalfDollars(2 * d)

\* d dollars a month in monthly units (a monthly unit is 1/12 annual unit).
MonthlyDollars(d) == 12 * Dollars(d)

\* An annual amount divided by 12: x annual units a year are x monthly units
\* a month.
PerMonth(x) == x

\* 0.001 dollars a month, the epsilon of updateAllocation.
Epsilon == MonthlyDollars(1) \div 1000

-----------------------------------------------------------------------------
(* constants.ts: US_STATES (name, baseRate).  The file is not part of the  *)
(* sources at hand; the model keeps the initial state of App and one state *)
(* without income tax, with base rates in hundredths of a percent.         *)

StateNames == {"California", "Texas"}

US_STATES == [s \in StateNames |-> IF s = "Texas" THEN 0 ELSE 930]

baseRate(s) == US_STATES[s]

-----------------------------------------------------------------------------
(* App.calculateBudget, src/App.tsx:22-70 *)

STANDARD_DEDUCTION == Dollars(14600)

\* const taxable = Math.max(0, income - 14600)
taxable(inc) == Max(0, inc - STANDARD_DEDUCTION)

\* The bracket chain of lines 30-36: strict '>' against each floor, from the
\* top bracket down, with the cumulative amounts as written in the code.
federalTax(t) ==
    IF t > Dollars(609350) THEN MulRate(t - Dollars(609350), 37, 100) + Dollars(183647)
    ELSE IF t > Dollars(243725) THEN MulRate(t - Dollars(243725), 35, 100) + HalfDollars(111357)
    ELSE IF t > Dollars(191950) THEN MulRate(t - Dollars(191950), 32, 100) + HalfDollars(78221)
    ELSE IF t > Dollars(100525) THEN MulRate(t - Dollars(100525), 24, 100) + HalfDollars(34337)
    ELSE IF t > Dollars(47150) THEN MulRate(t - Dollars(47150), 22, 100) + Dollars(5426)
    ELSE IF t > Dollars(11600) THEN MulRate(t - Dollars(11600), 12, 100) + Dollars(1160)
    ELSE MulRate(t, 10, 100)

\* Mutant of fica: the rate applied after the deduction.
ficaOnTaxable(inc) == MulRate(taxable(inc), 765, 10000)

\* const fica = income * 0.0765
fica(inc) == MulRate(inc, 765, 10000)

\* Mutant of stateTax: the Math.max(0, ...) left out.
stateTaxNoFloor(inc, rate) == MulRate(inc - STANDARD_DEDUCTION, rate, 10000)

\* Mutant of stateTax: the base rate applied to the gross income.
stateTaxOnGross(inc, rate) == Max(0, MulRate(inc, rate, 10000))

\* Math.max(0, (income - 14600) * stateInfo.baseRate)
stateTax(inc, rate) == Max(0, MulRate(inc - STANDARD_DEDUCTION, rate, 10000))

totalTax(inc, rate) == federalTax(taxable(inc)) + stateTax(inc, rate) + fica(inc)

netIncome(inc, rate) == inc - totalTax(inc, rate)

netMonthly(inc, rate) == PerMonth(netIncome(inc, rate))

Categories == {"housing", "food", "general", "savings"}

\* The 35 / 15 / 20 / 30 template of lines 53-58.
templateAllocations(net) ==
    [housing |-> MulRate(net, 35, 100),
     food    |-> MulRate(net, 15, 100),
     general |-> MulRate(net, 20, 100),
     savings |-> MulRate(net, 30, 100)]

\* The value handed to setBudgetData in lines 60-69.
calculateBudget(inc, st) ==
    [netMonthlyIncome |-> netMonthly(inc, baseRate(st)),
     taxes |-> [federal |-> federalTax(taxable(inc)),
                state   |-> stateTax(inc, baseRate(st)),
                fica    |-> fica(inc),
                total   |-> totalTax(inc, baseRate(st))],
     allocations |-> templateAllocations(netMonthly(inc, baseRate(st)))]

\* Object.values(allocations).reduce((a, b) => a + b, 0)
sumAllocations(a) == a.housing + a.food + a.general + a.savings

-----------------------------------------------------------------------------
(* App.updateAllocation, src/App.tsx:72-137 *)

withdrawalOrder == <<"savings", "general", "food", "housing">>
depositOrder == <<"savings", "general">>

\* let safeVal = Math.max(0, Math.min(newVal, netMonthlyIncome))
safeVal(b, newVal) == Max(0, Min(newVal, b.netMonthlyIncome))

\* const diff = safeVal - currentVal
diff(b, category, newVal) == safeVal(b, newVal) - b.allocations[category]

\* The loop of lines 96-108 from position i of withdrawalOrder on: the
\* allocations and the remainingDiff it ends with.
RECURSIVE withdraw(_, _, _, _)
withdraw(alloc, remainingDiff, category, i) ==
    IF i > Len(withdrawalOrder) THEN [allocations |-> alloc, remainingDiff |-> remainingDiff]
    ELSE LET source == withdrawalOrder[i] IN
         IF source = category THEN withdraw(alloc, remainingDiff, category, i + 1)
         ELSE IF Abs(remainingDiff) < Epsilon
              THEN [allocations |-> alloc, remainingDiff |-> remainingDiff]
         ELSE IF alloc[source] <= 0 THEN withdraw(alloc, remainingDiff, category, i + 1)
         ELSE LET toTake == Min(alloc[source], remainingDiff) IN
              withdraw([alloc EXCEPT ![source] = @ - toTake],
                       remainingDiff - toTake, category, i + 1)

\* The loop of lines 116-122: the first target that is not the edited
\* category receives everything and the loop breaks.
RECURSIVE deposit(_, _, _, _)
deposit(alloc, moneyToGive, category, i) ==
    IF i > Len(depositOrder) THEN alloc
    ELSE LET target == depositOrder[i] IN
         IF target = category THEN deposit(alloc, moneyToGive, category, i + 1)
         ELSE [alloc EXCEPT ![target] = @ + moneyToGive]

\* Math.abs(error) > 0.001 on doubles.  The sum of line 126 carries the
\* rounding of its additions, so an error whose exact value is 0.001
\* compares either way; roundsUp tells which.
exceedsEpsilon(error, roundsUp) ==
    \/ Abs(error) > Epsilon
    \/ roundsUp /\ Abs(error) = Epsilon

\* Mutant of finalCorrection: the sanity check left out.
finalCorrectionSkipped(alloc, netMonthlyIncome, roundsUp) == alloc

\* Lines 125-131: the error against netMonthlyIncome goes to savings when it
\* is larger than the epsilon.
finalCorrection(alloc, netMonthlyIncome, roundsUp) ==
    LET error == netMonthlyIncome - sumAllocations(alloc) IN
    IF exceedsEpsilon(error, roundsUp) THEN [alloc EXCEPT !.savings = @ + error] ELSE alloc

\* Lines 85-131 for a call that passed the early returns.
rebalance(b, category, newVal, roundsUp) ==
    LET newAllocations == [b.allocations EXCEPT ![category] = safeVal(b, newVal)]
        remainingDiff == diff(b, category, newVal)
        moved == IF remainingDiff > 0
                 THEN withdraw(newAllocations, remainingDiff, category, 1).allocations
                 ELSE deposit(newAllocations, Abs(remainingDiff), category, 1)
    IN finalCorrection(moved, b.netMonthlyIncome, roundsUp)

\* Mutant of isNoOp: the epsilon test of line 83 left out.
isNoOpWithoutEpsilon(b, category, newVal) == b.netMonthlyIncome <= 0

\* The early returns of lines 76 and 83.
isNoOp(b, category, newVal) ==
    \/ b.netMonthlyIncome <= 0
    \/ Abs(diff(b, category, newVal)) < Epsilon

\* The budgetData after updateAllocation(category, newVal) on a budgetData b
\* that is not null.
updateAllocation(b, category, newVal, roundsUp) ==
    IF isNoOp(b, category, newVal) THEN b
    ELSE [b EXCEPT !.allocations = rebalance(b, category, newVal, roundsUp)]

-----------------------------------------------------------------------------
(* The App component as a state machine *)

\* budgetData before the first calculateBudget.
Null == [isNull |-> TRUE]

\* Bound on the updateAllocation calls explored between two calculateBudget.
MaxEdits == 2

\* IncomeSection: values typed into the number input (any number: the
\* handler rejects the negative ones), in annual units.
ManualIncomes ==
    {Dollars(-1), 0, Dollars(10000), Dollars(623950), HalfDollars(1247901)}

\* IncomeSection: preset tiers (one of the eleven) set by the tier buttons.
TIERS == {Dollars(60000)}

\* A remainder below the epsilon, and an amount above it, in monthly units.
SubEpsilon == (2 * Epsilon) \div 3
Chunk == MonthlyDollars(100)

\* BudgetBreakdown: values the number input and the slider of a category can
\* hand to onUpdateAllocation: below 0, 0, the whole budget, above the
\* budget, the current value and a hair above it, the current value plus
\* the balance of another category and a hair more, and a partial decrease.
NewValues(b, category) ==
    LET cur == b.allocations[category] IN
    {MonthlyDollars(-1), 0, b.netMonthlyIncome, b.netMonthlyIncome + MonthlyDollars(1)}
    \cup {cur, cur + SubEpsilon, cur - Chunk}
    \cup {cur + b.allocations[d] + SubEpsilon : d \in Categories \ {category}}

\* The InvestmentChart component is left out of the App state machine.
ChartIdle ==
    /\ monthlyContribution = 0
    /\ investRatio = 0
    /\ investReturnRatePercent = 0
    /\ bankReturnRatePercent = 0
    /\ data = <<>>

\* The mortgage optimizer of HousingSearch is left out of the App and
\* InvestmentChart state machines.
MortgageIdle ==
    /\ loanBalance = 0
    /\ interestRate = 0
    /\ monthlyPayment = 0
    /\ extraPrincipal = 0
    /\ mortgageData = Null
    /\ sim = [pc |-> "done"]

\* The AI advisor and the housing search are left out of the other state
\* machines.
AiIdle ==
    /\ apiKey = FALSE
    /\ upstreamCalls = 0
    /\ timers = {}
    /\ inFlight = {}
    /\ advice = Null
    /\ loading = FALSE
    /\ deepInFlight = {}
    /\ deepPlan = Null
    /\ deepLoading = FALSE
    /\ location = ""
    /\ searchInFlight = {}
    /\ results = Null
    /\ searchLoading = FALSE
    /\ hist = [changes |-> 0]

Op(kind, category, newVal) ==
    [kind |-> kind, category |-> category, newVal |-> newVal, before |-> budgetData]

Init ==
    /\ income = Dollars(60000)
    /\ selectedState = "California"
    /\ budgetData = Null
    /\ effectPending = TRUE
    /\ edits = 0
    /\ last = [kind |-> "mount", category |-> "none", newVal |-> 0, before |-> Null]
    /\ ChartIdle
    /\ MortgageIdle
    /\ AiIdle

\* setIncome(v): a re-render, and the effect of lines 17-20 when the
\* dependency changed (setting the value it has changes nothing).
setIncome(v) ==
    /\ income' = v
    /\ effectPending' = (v # income)
    /\ last' = Op(IF v # income THEN "income" ELSE "unchanged", "none", 0)
    /\ UNCHANGED <<selectedState, budgetData, edits, notAppVars>>

\* IncomeSection.handleManualChange: if (!isNaN(val) && val >= 0) setIncome(val)
handleManualChange(val) ==
    /\ ~effectPending
    /\ IF val >= 0 THEN setIncome(val)
       ELSE /\ last' = Op("rejected", "none", 0)
            /\ UNCHANGED <<income, selectedState, budgetData, effectPending, edits, notAppVars>>

\* IncomeSection: onClick={() => setIncome(tier)}
handleTierClick(tier) ==
    /\ ~effectPending
    /\ setIncome(tier)

\* Mutant of setSelectedState: selectedState missing from the dependencies
\* of the effect.
setSelectedStateNoEffect(s) ==
    /\ ~effectPending
    /\ selectedState' = s
    /\ effectPending' = FALSE
    /\ last' = Op(IF s # selectedState THEN "state" ELSE "unchanged", "none", 0)
    /\ UNCHANGED <<income, budgetData, edits, notAppVars>>

\* IncomeSection: onChange={(e) => setSelectedState(e.target.value)}, and
\* the effect of lines 17-20 when the dependency changed.
setSelectedState(s) ==
    /\ ~effectPending
    /\ selectedState' = s
    /\ effectPending' = (s # selectedState)
    /\ last' = Op(IF s # selectedState THEN "state" ELSE "unchanged", "none", 0)
    /\ UNCHANGED <<income, budgetData, edits, notAppVars>>

\* useEffect(() => { calculateBudget(); }, [income, selectedState])
runEffect ==
    /\ effectPending
    /\ budgetData' = calculateBudget(income, selectedState)
    /\ effectPending' = FALSE
    /\ edits' = 0
    /\ last' = Op("calculate", "none", 0)
    /\ UNCHANGED <<income, selectedState, notAppVars>>

\* BudgetBreakdown: onReset={calculateBudget}; rendered when budgetData is set.
onReset ==
    /\ ~effectPending
    /\ budgetData # Null
    /\ budgetData' = calculateBudget(income, selectedState)
    /\ edits' = 0
    /\ last' = Op("reset", "none", 0)
    /\ UNCHANGED <<income, selectedState, effectPending, notAppVars>>

\* BudgetBreakdown: onUpdateAllocation={updateAllocation}, called by the
\* number input or the slider of a category with the value entered.
onUpdateAllocation ==
    /\ ~effectPending
    /\ budgetData # Null
    /\ edits < MaxEdits
    /\ \E category \in Categories :
           \E newVal \in NewValues(budgetData, category) : \E roundsUp \in BOOLEAN :
               /\ budgetData' = updateAllocation(budgetData, category, newVal, roundsUp)
               /\ last' = Op("update", category, newVal)
    /\ edits' = edits + 1
    /\ UNCHANGED <<income, selectedState, effectPending, notAppVars>>

Next ==
    \/ \E val \in ManualIncomes : handleManualChange(val)
    \/ \E tier \in TIERS : handleTierClick(tier)
    \/ \E s \in StateNames : setSelectedState(s)
    \/ runEffect
    \/ onReset
    \/ onUpdateAllocation

Spec == Init /\ [][Next]_vars

-----------------------------------------------------------------------------
(* updateAllocation on its own: calls in sequence on the budget of the     *)
(* initial income, with requests that leave remainders of half the epsilon *)

\* Bound on the updateAllocation calls explored in sequence.
MaxCalls == 3

\* 0.0005 dollars a month: two such remainders make the epsilon.
HalfEpsilon == Epsilon \div 2

\* Requests for a category: a partial decrease, a partial increase, and
\* the whole balance of another category and half an epsilon more.
FineValues(b, category) ==
    LET cur == b.allocations[category] IN
    {cur - Chunk, cur + Chunk}
    \cup {cur + b.allocations[d] + HalfEpsilon : d \in Categories \ {category}}

\* App after its first effect: the budget of the initial income.
InitRebalance ==
    /\ income = Dollars(60000)
    /\ selectedState \in StateNames
    /\ budgetData = calculateBudget(income, selectedState)
    /\ effectPending = FALSE
    /\ edits = 0
    /\ last = [kind |-> "calculate", category |-> "none", newVal |-> 0, before |-> Null]
    /\ ChartIdle
    /\ MortgageIdle
    /\ AiIdle

\* updateAllocation(category, newVal), called by BudgetBreakdown.
callUpdateAllocation ==
    /\ edits < MaxCalls
    /\ \E category \in Categories :
           \E newVal \in FineValues(budgetData, category) : \E roundsUp \in BOOLEAN :
               /\ budgetData' = updateAllocation(budgetData, category, newVal, roundsUp)
               /\ last' = Op("update", category, newVal)
    /\ edits' = edits + 1
    /\ UNCHANGED <<income, selectedState, effectPending, notAppVars>>

NextRebalance ==
    \/ callUpdateAllocation
    \/ onReset

SpecRebalance == InitRebalance /\ [][NextRebalance]_vars

-----------------------------------------------------------------------------
(* Properties of the App component *)

HasBudget == budgetData # Null

\* The last operation was an updateAllocation call that got past the early
\* returns.
Rebalanced ==
    /\ last.kind = "update"
    /\ last.before.netMonthlyIncome > 0
    /\ Abs(Max(0, Min(last.newVal, last.before.netMonthlyIncome))
           - last.before.allocations[last.category]) >= Epsilon

\* C1: allocation conservation.  In every reachable state the four
\* allocations sum to netMonthlyIncome within 0.001.
C1_AllocationConservation ==
    HasBudget =>
        Abs(sumAllocations(budgetData.allocations) - budgetData.netMonthlyIncome) <= Epsilon

\* Two rebalancing calls have run and the sum is off netMonthlyIncome by a
\* remainder the withdrawal loop left, below the epsilon.
C1_Witness ==
    /\ HasBudget
    /\ Rebalanced
    /\ edits = 2
    /\ sumAllocations(budgetData.allocations) # budgetData.netMonthlyIncome

\* C2: allocation non-negativity.  After any sequence of updateAllocation
\* calls every category value is >= 0.
C2_AllocationsNonNegative ==
    HasBudget => \A c \in Categories : budgetData.allocations[c] >= 0

\* C3: rebalance no-op.  An updateAllocation call leaves budgetData unchanged
\* when netMonthlyIncome <= 0 or when the clamped new value is within 0.001
\* of the category's current value.
C3_NoOp ==
    (/\ last.kind = "update"
     /\ \/ last.before.netMonthlyIncome <= 0
        \/ Abs(Max(0, Min(last.newVal, last.before.netMonthlyIncome))
               - last.before.allocations[last.category]) < Epsilon)
    => budgetData = last.before

\* An updateAllocation call asked for a value that differs from the current
\* one by less than the epsilon, on a positive budget.
C3_Witness ==
    /\ last.kind = "update"
    /\ last.before.netMonthlyIncome > 0
    /\ last.newVal # last.before.allocations[last.category]
    /\ Abs(last.newVal - last.before.allocations[last.category]) < Epsilon
    /\ budgetData = last.before

\* C4: tax monotonicity.  For the state rate of the budget on display, no
\* lower income has a higher total tax.
C4_TaxMonotone ==
    (HasBudget /\ ~effectPending) =>
        \A lower \in ManualIncomes \cup TIERS :
            (0 <= lower /\ lower <= income) =>
                totalTax(lower, baseRate(selectedState)) <= budgetData.taxes.total

\* C5: tax breakdown consistency.  total = federal + state + fica, the four
\* figures are >= 0, and netMonthlyIncome = (income - total) / 12.
C5_TaxBreakdown ==
    HasBudget =>
        /\ budgetData.taxes.total
               = budgetData.taxes.federal + budgetData.taxes.state + budgetData.taxes.fica
        /\ budgetData.taxes.federal >= 0
        /\ budgetData.taxes.state >= 0
        /\ budgetData.taxes.fica >= 0
        /\ budgetData.taxes.total >= 0
        /\ ~effectPending =>
               budgetData.netMonthlyIncome = PerMonth(income - budgetData.taxes.total)

\* A budget for an income below the standard deduction in a state with a
\* positive base rate.
C5_Witness ==
    /\ HasBudget
    /\ ~effectPending
    /\ 0 < income
    /\ income < STANDARD_DEDUCTION
    /\ baseRate(selectedState) > 0
    /\ budgetData.taxes.state = 0

\* The budget on display was computed for income 60000 in a state without
\* income tax.
EndToEndCase ==
    /\ HasBudget
    /\ ~effectPending
    /\ income = Dollars(60000)
    /\ baseRate(selectedState) = 0

\* C6: end-to-end scenario.  Income 60000 at base rate 0 gives federal tax
\* 5216, FICA 4590, state tax 0, netMonthlyIncome (60000 - 5216 - 4590) / 12,
\* and, right after the computation, allocations of 35 / 15 / 20 / 30 percent
\* of it that sum to it within 0.001.
C6_EndToEnd ==
    EndToEndCase =>
        /\ taxable(income) = Dollars(45400)
        /\ budgetData.taxes.federal = Dollars(5216)
        /\ budgetData.taxes.fica = Dollars(4590)
        /\ budgetData.taxes.state = 0
        /\ budgetData.netMonthlyIncome = PerMonth(Dollars(60000 - 5216 - 4590))
        /\ last.kind \in {"calculate", "reset"} =>
            /\ 20 * budgetData.allocations.housing = 7 * budgetData.netMonthlyIncome
            /\ 20 * budgetData.allocations.food = 3 * budgetData.netMonthlyIncome
            /\ 5 * budgetData.allocations.general = budgetData.netMonthlyIncome
            /\ 10 * budgetData.allocations.savings = 3 * budgetData.netMonthlyIncome
            /\ Abs(sumAllocations(budgetData.allocations) - budgetData.netMonthlyIncome)
                   <= Epsilon

C6_Witness == EndToEndCase /\ last.kind = "calculate"

\* C7: template reset.  Once the recomputation has run after a change of
\* income or state, and after a Reset click, the allocations are the
\* 35 / 15 / 20 / 30 template of the net monthly income of the current income
\* and state.
C7_TemplateReset ==
    (/\ HasBudget
     /\ ~effectPending
     /\ last.kind \in {"income", "state", "calculate", "reset"})
    => budgetData.allocations
           = templateAllocations(netMonthly(income, baseRate(selectedState)))

\* The recomputation ran over a budget that user edits had moved off its
\* template.
C7_Witness ==
    /\ HasBudget
    /\ ~effectPending
    /\ last.kind \in {"calculate", "reset"}
    /\ last.before # Null
    /\ last.before.allocations # templateAllocations(last.before.netMonthlyIncome)
    /\ last.before.netMonthlyIncome # budgetData.netMonthlyIncome => last.kind = "calculate"

\* The progressive table of the federal estimate: the floor of each bracket
\* in dollars and its rate in percent.
BracketTable ==
    <<[floor |-> 0, rate |-> 10], [floor |-> 11600, rate |-> 12],
      [floor |-> 47150, rate |-> 22], [floor |-> 100525, rate |-> 24],
      [floor |-> 191950, rate |-> 32], [floor |-> 243725, rate |-> 35],
      [floor |-> 609350, rate |-> 37]>>

\* The tax the brackets below bracket k accumulate at its floor.
RECURSIVE cumulativeAtFloor(_)
cumulativeAtFloor(k) ==
    IF k = 1 THEN 0
    ELSE cumulativeAtFloor(k - 1)
         + MulRate(Dollars(BracketTable[k].floor - BracketTable[k - 1].floor),
                   BracketTable[k - 1].rate, 100)

\* The highest bracket whose floor is <= t.
bracketOf(t) ==
    CHOOSE k \in 1..Len(BracketTable) :
        /\ Dollars(BracketTable[k].floor) <= t
        /\ \A j \in (k + 1)..Len(BracketTable) : Dollars(BracketTable[j].floor) > t

progressiveTax(t) ==
    LET k == bracketOf(t) IN
    cumulativeAtFloor(k) + MulRate(t - Dollars(BracketTable[k].floor), BracketTable[k].rate, 100)

\* C16: federal bracket formula.  The federal tax of the budget on display
\* is cumulativeAtFloor + (t - bracketFloor) * bracketRate for the highest
\* bracket whose floor is <= t, with t = max(0, income - 14600) and the
\* progressive table of rates 10/12/22/24/32/35/37%.
C16_FederalBracketFormula ==
    (HasBudget /\ ~effectPending) =>
        budgetData.taxes.federal = progressiveTax(Max(0, income - Dollars(14600)))

\* C17: state tax and FICA.  The state tax of the budget on display is
\* max(0, taxableIncome * baseRate) with taxableIncome = max(0, income -
\* 14600), hence 0 for a base rate of 0 and for an income at or below the
\* deduction, and FICA is 7.65% of the gross income.
C17_StateTaxAndFica ==
    (HasBudget /\ ~effectPending /\ income >= 0) =>
        LET taxableIncome == Max(0, income - Dollars(14600)) IN
        /\ budgetData.taxes.state
               = Max(0, MulRate(taxableIncome, baseRate(selectedState), 10000))
        /\ (baseRate(selectedState) = 0 \/ income <= Dollars(14600))
               => budgetData.taxes.state = 0
        /\ budgetData.taxes.fica = MulRate(income, 765, 10000)

\* A budget with a positive state tax: an income above the deduction in a
\* state with a positive base rate.
C17_Witness ==
    /\ HasBudget
    /\ ~effectPending
    /\ income > Dollars(14600)
    /\ baseRate(selectedState) > 0
    /\ budgetData.taxes.state > 0
    /\ budgetData.taxes.fica > 0

\* The last operation was an updateAllocation call that raised its category
\* (lowered it), past the early returns.
Increased ==
    /\ Rebalanced
    /\ Max(0, Min(last.newVal, last.before.netMonthlyIncome))
           > last.before.allocations[last.category]

Decreased ==
    /\ Rebalanced
    /\ Max(0, Min(last.newVal, last.before.netMonthlyIncome))
           < last.before.allocations[last.category]

\* The donors of an increase of category, in the order savings, general,
\* food, housing: positions in that order.
Donors(category) == {i \in 1..4 : <<"savings", "general", "food", "housing">>[i] # category}

DonorAt(i) == <<"savings", "general", "food", "housing">>[i]

\* C18: withdrawal priority.  After an increase no donor has gained, and a
\* donor later in the order savings, general, food, housing has been
\* reduced only if every earlier donor ends at exactly 0.
C18_WithdrawalPriority ==
    Increased =>
        \A j \in Donors(last.category) :
            /\ budgetData.allocations[DonorAt(j)] <= last.before.allocations[DonorAt(j)]
            /\ budgetData.allocations[DonorAt(j)] < last.before.allocations[DonorAt(j)]
                   => \A i \in Donors(last.category) :
                          i < j => budgetData.allocations[DonorAt(i)] = 0

\* The category a decrease of category deposits into: the first of savings,
\* general that is not the edited one.
DepositTarget(category) == IF category = "savings" THEN "general" ELSE "savings"

\* C19: deposit on decrease.  When updateAllocation decreases a category by
\* d > 0, the full amount d is added to savings, or to general when the
\* edited category is savings, and the remaining two categories are left
\* unchanged.
C19_DepositOnDecrease ==
    Decreased =>
        LET d == last.before.allocations[last.category]
                     - Max(0, Min(last.newVal, last.before.netMonthlyIncome))
            target == DepositTarget(last.category)
        IN /\ budgetData.allocations[target] = last.before.allocations[target] + d
           /\ \A c \in Categories \ {last.category, target} :
                  budgetData.allocations[c] = last.before.allocations[c]

\* C20: the edited category receives the clamped request.  After an
\* updateAllocation call that is not a no-op the edited category's value is
\* clamp(newValue, 0, netMonthlyIncome) exactly, whichever the category and
\* also for a request for the entire budget.
C20_EditedReceivesRequest ==
    Rebalanced =>
        budgetData.allocations[last.category]
            = Max(0, Min(last.newVal, last.before.netMonthlyIncome))

\* What the withdrawal loop made of the increase of the last call: the
\* allocations and the remainingDiff it ended with.
Withdrawn ==
    withdraw([last.before.allocations EXCEPT ![last.category]
                  = Max(0, Min(last.newVal, last.before.netMonthlyIncome))],
             Max(0, Min(last.newVal, last.before.netMonthlyIncome))
                 - last.before.allocations[last.category],
             last.category, 1)

\* C26: donors always suffice.  In every reachable state an increase handled
\* by updateAllocation is fully covered by the donor categories:
\* remainingDiff ends below 0.001 and the final correction step adds nothing
\* to savings, so the allocations are those the withdrawal loop left.
C26_DonorsSuffice ==
    Increased =>
        /\ Withdrawn.remainingDiff >= 0
        /\ Withdrawn.remainingDiff < Epsilon
        /\ budgetData.allocations = Withdrawn.allocations

-----------------------------------------------------------------------------
(* InvestmentChart, src/components/AiAdvisor.tsx:225-555.  Amounts are in  *)
(* cents, the split ratio in twentieths (the slider's step is 0.05) and    *)
(* the return rates in hundredths of a percent (the inputs' finest step).  *)

\* const years = 30
years == 30

\* const DEFAULT_INVEST_RATIO = 0.4, in twentieths.
DEFAULT_INVEST_RATIO == 8

\* constants.ts: INVESTMENT_RETURN_RATE * 100 and BANK_RETURN_RATE * 100, in
\* hundredths of a percent.  The file is not part of the sources at hand.
INVESTMENT_RETURN_RATE == 700
BANK_RETURN_RATE == 400

\* Math.round of an amount in cents, in dollars (halves round up).
round(x) == (x + 50) \div 100

\* const monthlyInvest = monthlyContribution * investRatio
monthlyInvest(contribution, ratio) == MulRate(contribution, ratio, 20)

\* Mutant of monthlyBank: the sign of (1 - investRatio) turned.
monthlyBankSignTurned(contribution, ratio) == MulRate(contribution, ratio - 20, 20)

\* const monthlyBank = monthlyContribution * (1 - investRatio)
monthlyBank(contribution, ratio) == MulRate(contribution, 20 - ratio, 20)

\* Mutant of compound: the year's contributions added after the return is
\* applied.
compoundBeforeDeposit(current, monthly, ratePercent) ==
    MulRate(current, 10000 + ratePercent, 10000) + monthly * 12

\* (current + (monthly * 12)) * (1 + rateDecimal), rateDecimal = ratePercent / 100
compound(current, monthly, ratePercent) ==
    MulRate(current + monthly * 12, 10000 + ratePercent, 10000)

\* The loop of lines 256-272 from `year` up to and including lastYear: a
\* point is pushed, then both amounts are compounded for the next year.
RECURSIVE growthLoop(_, _, _, _, _, _)
growthLoop(year, lastYear, currentInvestAmount, currentBankAmount, result, in) ==
    IF year > lastYear THEN result
    ELSE growthLoop(year + 1, lastYear,
                    compound(currentInvestAmount, in.monthlyInvest, in.investRate),
                    compound(currentBankAmount, in.monthlyBank, in.bankRate),
                    Append(result, [year |-> year,
                                    investAmount |-> round(currentInvestAmount),
                                    bankAmount |-> round(currentBankAmount),
                                    difference |-> round(currentInvestAmount
                                                         - currentBankAmount)]),
                    in)

\* The dependencies of the useMemo, line 274.
memoInputs(contribution, ratio, investRate, bankRate) ==
    [monthlyInvest |-> monthlyInvest(contribution, ratio),
     monthlyBank |-> monthlyBank(contribution, ratio),
     investRate |-> investRate,
     bankRate |-> bankRate]

\* Mutant of growthData: the loop runs while year < years.
growthDataOneShort(contribution, ratio, investRate, bankRate) ==
    growthLoop(0, years - 1, 0, 0, <<>>,
               memoInputs(contribution, ratio, investRate, bankRate))

\* const data = useMemo(...), lines 245-274.
growthData(contribution, ratio, investRate, bankRate) ==
    growthLoop(0, years, 0, 0, <<>>, memoInputs(contribution, ratio, investRate, bankRate))

\* The monthlyContribution prop (allocations.savings of App), in cents.
Contributions == {0, 50000, 125485}

\* Positions of the split slider, in twentieths.
RatioPositions == {0, 1, 8, 10, 20}

\* Values typed into the two rate inputs, in hundredths of a percent.
TypedRates == {-20000, 0, 450, 1000}

\* The App component is left out of the InvestmentChart state machine.
AppIdle ==
    /\ income = 0
    /\ selectedState = "California"
    /\ budgetData = Null
    /\ effectPending = FALSE
    /\ edits = 0
    /\ last = [kind |-> "none"]

\* The render that follows a change of props or state: the useMemo
\* recomputes data from the new values.
useMemoData ==
    data' = growthData(monthlyContribution', investRatio', investReturnRatePercent',
                       bankReturnRatePercent')

InitChart ==
    /\ AppIdle
    /\ MortgageIdle
    /\ AiIdle
    /\ monthlyContribution = 125485
    /\ investRatio = DEFAULT_INVEST_RATIO
    /\ investReturnRatePercent = INVESTMENT_RETURN_RATE
    /\ bankReturnRatePercent = BANK_RETURN_RATE
    /\ data = growthData(monthlyContribution, investRatio, investReturnRatePercent,
                         bankReturnRatePercent)

\* App re-renders the chart with another allocations.savings.
receiveContribution(contribution) ==
    /\ monthlyContribution' = contribution
    /\ UNCHANGED <<investRatio, investReturnRatePercent, bankReturnRatePercent>>
    /\ useMemoData
    /\ UNCHANGED notChartVars

\* onChange={(e) => setInvestRatio(parseFloat(e.target.value))}
setInvestRatio(ratio) ==
    /\ investRatio' = ratio
    /\ UNCHANGED <<monthlyContribution, investReturnRatePercent, bankReturnRatePercent>>
    /\ useMemoData
    /\ UNCHANGED notChartVars

\* onChange={(e) => setInvestReturnRatePercent(Math.max(0, Number(e.target.value)))}
setInvestReturnRatePercent(typed) ==
    /\ investReturnRatePercent' = Max(0, typed)
    /\ UNCHANGED <<monthlyContribution, investRatio, bankReturnRatePercent>>
    /\ useMemoData
    /\ UNCHANGED notChartVars

\* onChange={(e) => setBankReturnRatePercent(Math.max(0, Number(e.target.value)))}
setBankReturnRatePercent(typed) ==
    /\ bankReturnRatePercent' = Max(0, typed)
    /\ UNCHANGED <<monthlyContribution, investRatio, investReturnRatePercent>>
    /\ useMemoData
    /\ UNCHANGED notChartVars

\* handleReset, lines 236-240.
handleReset ==
    /\ investRatio' = DEFAULT_INVEST_RATIO
    /\ investReturnRatePercent' = INVESTMENT_RETURN_RATE
    /\ bankReturnRatePercent' = BANK_RETURN_RATE
    /\ UNCHANGED monthlyContribution
    /\ useMemoData
    /\ UNCHANGED notChartVars

NextChart ==
    \/ \E contribution \in Contributions : receiveContribution(contribution)
    \/ \E ratio \in RatioPositions : setInvestRatio(ratio)
    \/ \E typed \in TypedRates : setInvestReturnRatePercent(typed)
    \/ \E typed \in TypedRates : setBankReturnRatePercent(typed)
    \/ handleReset

SpecChart == InitChart /\ [][NextChart]_vars

-----------------------------------------------------------------------------
(* Properties of InvestmentChart *)

\* C8: growth series length.  The series has exactly 31 points, labelled
\* Year 0 to Year 30 in order, and both balances of the first point are 0.
C8_SeriesLength ==
    /\ Len(data) = 31
    /\ \A k \in 0..30 : data[k + 1].year = k
    /\ data[1].investAmount = 0
    /\ data[1].bankAmount = 0

\* A series computed from a positive contribution, after the user moved the
\* slider and typed a rate.
C8_Witness ==
    /\ Len(data) = 31
    /\ monthlyContribution > 0
    /\ investRatio # DEFAULT_INVEST_RATIO
    /\ investReturnRatePercent # INVESTMENT_RETURN_RATE
    /\ data[31].investAmount > 0

\* C9: growth monotonicity.  For rates >= 0, a contribution >= 0 and a split
\* ratio in [0, 1] the recorded balances of both tracks never decrease from
\* a year to the next and are never negative.
C9_Monotone ==
    (/\ investReturnRatePercent >= 0
     /\ bankReturnRatePercent >= 0
     /\ monthlyContribution >= 0
     /\ investRatio \in 0..20)
    => /\ \A k \in 1..(Len(data) - 1) :
              /\ data[k].investAmount <= data[k + 1].investAmount
              /\ data[k].bankAmount <= data[k + 1].bankAmount
       /\ \A k \in 1..Len(data) :
              /\ data[k].investAmount >= 0
              /\ data[k].bankAmount >= 0

\* Both tracks receive money and earn a return, and both grow in the last
\* year of the series.
C9_Witness ==
    /\ monthlyContribution > 0
    /\ investRatio \in 1..19
    /\ investReturnRatePercent > 0
    /\ bankReturnRatePercent > 0
    /\ Len(data) > 30
    /\ data[30].investAmount < data[31].investAmount
    /\ data[30].bankAmount < data[31].bankAmount

\* The balance of a track at year k by the update rule: 0 at year 0, and
\* (balance of year k - 1 + 12 * monthly) * (1 + rate) afterwards.
RECURSIVE balanceOfYear(_, _, _)
balanceOfYear(k, monthly, ratePercent) ==
    IF k = 0 THEN 0
    ELSE MulRate(balanceOfYear(k - 1, monthly, ratePercent) + 12 * monthly,
                 10000 + ratePercent, 10000)

\* C22: growth update rule.  For each track the balance recorded for year 0
\* is 0 and the balance for year k + 1 is (balance for year k + 12 * the
\* track's monthly contribution) * (1 + annual rate); the investment track
\* contributes monthlyContribution * ratio, the bank track
\* monthlyContribution * (1 - ratio); the point for year k is recorded
\* before year k's compounding is applied.
C22_GrowthUpdateRule ==
    LET invest == MulRate(monthlyContribution, investRatio, 20)
        bank == MulRate(monthlyContribution, 20 - investRatio, 20)
    IN /\ Len(data) = years + 1
       /\ \A k \in 0..years :
              /\ data[k + 1].investAmount
                     = round(balanceOfYear(k, invest, investReturnRatePercent))
              /\ data[k + 1].bankAmount
                     = round(balanceOfYear(k, bank, bankReturnRatePercent))

\* Both tracks receive different contributions at different positive rates,
\* and the second year of the investment track shows the return on the
\* first.
C22_Witness ==
    /\ monthlyContribution > 0
    /\ investRatio \in 1..19
    /\ investRatio \notin {DEFAULT_INVEST_RATIO, 10}
    /\ investReturnRatePercent > 0
    /\ bankReturnRatePercent > 0
    /\ investReturnRatePercent # bankReturnRatePercent
    /\ Len(data) = years + 1
    /\ data[3].investAmount > 2 * data[2].investAmount
    /\ data[2].investAmount > 12 * round(MulRate(monthlyContribution, investRatio, 20))

-----------------------------------------------------------------------------
(* HousingSearch, the mortgage optimizer: src/components/HousingSearch.tsx *)
(* lines 22-26 and 39-98.  Amounts are in cents and the interest rate in   *)
(* hundredths of a percent, so that r = interestRate / 100 / 12 is         *)
(* interestRate / 120000.                                                  *)

\* const maxMonths = 720
maxMonths == 720

\* x * num / den rounded down, computed without forming x * num.
MulFloor(x, num, den) == (x \div den) * num + ((x % den) * num) \div den

\* b * r, to the nearest cent: the balance that follows, b - (pay - b * r),
\* is the exact one rounded to the precision it is kept to.
monthlyInterest(b, rate) == MulRate(b, rate, 120000)

\* Mutant of infeasible: the payment compared with '<'.
infeasibleStrict(balance, rate, payment) ==
    \/ rate <= 0
    \/ payment < MulFloor(balance, rate, 120000)
    \/ /\ payment = MulFloor(balance, rate, 120000)
       /\ ((balance % 120000) * rate) % 120000 # 0

\* if (r <= 0 || monthlyPayment <= loanBalance * r), lines 40-44.  The
\* payment is a whole number of cents, so it is at most loanBalance * r
\* exactly when it is at most loanBalance * r rounded down.
infeasible(balance, rate, payment) ==
    \/ rate <= 0
    \/ payment <= MulFloor(balance, rate, 120000)

\* Mutant of payMonth: the month runs whether or not a balance is left.
payMonthAlways(sc, rate, totalPay) ==
    LET interest == monthlyInterest(sc.b, rate)
        principal == Min(sc.b, totalPay - interest)
    IN [b |-> sc.b - principal,
        totalInterest |-> sc.totalInterest + interest,
        months |-> sc.months + 1]

\* One month of one scenario, lines 68-74 and 77-84: the balance, the
\* interest total and the month count after it.
payMonth(sc, rate, totalPay) ==
    IF sc.b > 0
    THEN LET interest == monthlyInterest(sc.b, rate)
             principal == Min(sc.b, totalPay - interest)
         IN [b |-> sc.b - principal,
             totalInterest |-> sc.totalInterest + interest,
             months |-> sc.months + 1]
    ELSE sc

\* Mutant of recordYear: a point is pushed only while both balances are
\* left.
recordYearBothLeft(chartData, i, sc1, sc2) ==
    IF i % 12 = 0 /\ (sc1.b > 0 /\ sc2.b > 0)
    THEN Append(chartData, [year |-> i \div 12,
                            balanceStandard |-> Max(0, round(sc1.b)),
                            balanceAccelerated |-> Max(0, round(sc2.b))])
    ELSE chartData

\* Lines 59-65: the data point pushed at the start of a year while a
\* balance is left.
recordYear(chartData, i, sc1, sc2) ==
    IF i % 12 = 0 /\ (sc1.b > 0 \/ sc2.b > 0)
    THEN Append(chartData, [year |-> i \div 12,
                            balanceStandard |-> Max(0, round(sc1.b)),
                            balanceAccelerated |-> Max(0, round(sc2.b))])
    ELSE chartData

\* Lines 40-55: the useMemo returns null at once, or enters the loop with
\* i = 0 and both scenarios at the loan balance.
startMemo(balance, rate, payment) ==
    IF infeasible(balance, rate, payment) THEN [pc |-> "done"]
    ELSE [pc |-> "loop", i |-> 0,
          sc1 |-> [b |-> balance, totalInterest |-> 0, months |-> 0],
          sc2 |-> [b |-> balance, totalInterest |-> 0, months |-> 0],
          chartData |-> <<>>]

\* Mutant of result: the two interest totals subtracted the other way round.
resultSignTurned(end) ==
    [interestSaved |-> round(end.sc2.totalInterest - end.sc1.totalInterest),
     timeSavedMonths |-> Max(0, end.sc1.months - end.sc2.months),
     totalInterestStandard |-> round(end.sc1.totalInterest),
     payoffYearsStandard |-> MulRate(end.sc1.months, 10, 12),
     payoffYearsAccelerated |-> MulRate(end.sc2.months, 10, 12),
     chartData |-> end.chartData]

\* Lines 89-96.  payoffYears are in tenths of a year, as toFixed(1) prints
\* them.
result(end) ==
    [interestSaved |-> round(end.sc1.totalInterest - end.sc2.totalInterest),
     timeSavedMonths |-> Max(0, end.sc1.months - end.sc2.months),
     totalInterestStandard |-> round(end.sc1.totalInterest),
     payoffYearsStandard |-> MulRate(end.sc1.months, 10, 12),
     payoffYearsAccelerated |-> MulRate(end.sc2.months, 10, 12),
     chartData |-> end.chartData]

\* d dollars in cents.
Cents(d) == d * 100

\* Values typed into the four inputs of the optimizer.  A balance of 923
\* with a payment of 5 at 6.5% is the case of a payment above the first
\* month's interest (4.99958) by less than the precision amounts are kept
\* to: the cent here, the last place of the double in the program, where a
\* balance of 300000 with a payment of 1625.00000000001 is such a case.
TypedBalances == {Cents(-1000), 0, Cents(923), Cents(120000), Cents(300000)}
TypedInterestRates == {-100, 0, 650, 1000}
TypedPayments == {Cents(5), Cents(1000), Cents(1625), Cents(1626), Cents(2500)}
TypedExtras == {Cents(-100), 0, Cents(500)}

\* The render that follows a change of state: the useMemo starts over with
\* the new values, and mortgageData is null when it returns at line 43.
useMemoStart ==
    /\ sim' = startMemo(loanBalance', interestRate', monthlyPayment')
    /\ mortgageData' = IF sim'.pc = "done" THEN Null ELSE mortgageData

InitMortgage ==
    /\ AppIdle
    /\ ChartIdle
    /\ AiIdle
    /\ loanBalance = Cents(300000)
    /\ interestRate = 650
    /\ monthlyPayment = Cents(2500)
    /\ extraPrincipal = 0
    /\ mortgageData = Null
    /\ sim = startMemo(loanBalance, interestRate, monthlyPayment)

\* onChange={(e) => setLoanBalance(Number(e.target.value))}
setLoanBalance(typed) ==
    /\ sim.pc = "done"
    /\ loanBalance' = typed
    /\ UNCHANGED <<interestRate, monthlyPayment, extraPrincipal>>
    /\ useMemoStart
    /\ UNCHANGED notMortgageVars

\* onChange={(e) => setInterestRate(Number(e.target.value))}
setInterestRate(typed) ==
    /\ sim.pc = "done"
    /\ interestRate' = typed
    /\ UNCHANGED <<loanBalance, monthlyPayment, extraPrincipal>>
    /\ useMemoStart
    /\ UNCHANGED notMortgageVars

\* onChange={(e) => setMonthlyPayment(Number(e.target.value))}
setMonthlyPayment(typed) ==
    /\ sim.pc = "done"
    /\ monthlyPayment' = typed
    /\ UNCHANGED <<loanBalance, interestRate, extraPrincipal>>
    /\ useMemoStart
    /\ UNCHANGED notMortgageVars

\* onChange={(e) => setExtraPrincipal(Math.max(0, Number(e.target.value)))}
setExtraPrincipal(typed) ==
    /\ sim.pc = "done"
    /\ extraPrincipal' = Max(0, typed)
    /\ UNCHANGED <<loanBalance, interestRate, monthlyPayment>>
    /\ useMemoStart
    /\ UNCHANGED notMortgageVars

\* Mutant of totalPay: the extra principal left out of the accelerated
\* payment.
totalPayWithoutExtra(payment, extra) == payment

\* const totalPay = monthlyPayment + extraPrincipal, line 79.
totalPay(payment, extra) == payment + extra

\* One iteration of the loop of lines 57-87: the data point, a month of
\* each scenario, then the break of line 86 or i++ and the loop test.
loopMonth ==
    /\ sim.pc = "loop"
    /\ LET next1 == payMonth(sim.sc1, interestRate, monthlyPayment)
           next2 == payMonth(sim.sc2, interestRate, totalPay(monthlyPayment, extraPrincipal))
           leave == (next1.b <= 0 /\ next2.b <= 0) \/ sim.i + 1 > maxMonths
       IN sim' = [pc |-> IF leave THEN "return" ELSE "loop",
                  i |-> IF leave THEN sim.i ELSE sim.i + 1,
                  sc1 |-> next1,
                  sc2 |-> next2,
                  chartData |-> recordYear(sim.chartData, sim.i, sim.sc1, sim.sc2)]
    /\ UNCHANGED <<loanBalance, interestRate, monthlyPayment, extraPrincipal, mortgageData>>
    /\ UNCHANGED notMortgageVars

\* The return of lines 89-96.
returnResult ==
    /\ sim.pc = "return"
    /\ mortgageData' = result(sim)
    /\ sim' = [pc |-> "done"]
    /\ UNCHANGED <<loanBalance, interestRate, monthlyPayment, extraPrincipal>>
    /\ UNCHANGED notMortgageVars

NextMortgage ==
    \/ \E typed \in TypedBalances : setLoanBalance(typed)
    \/ \E typed \in TypedInterestRates : setInterestRate(typed)
    \/ \E typed \in TypedPayments : setMonthlyPayment(typed)
    \/ \E typed \in TypedExtras : setExtraPrincipal(typed)
    \/ loopMonth
    \/ returnResult

SpecMortgage == InitMortgage /\ [][NextMortgage]_vars

-----------------------------------------------------------------------------
(* Properties of the mortgage optimizer *)

\* monthlyPayment <= loanBalance * interestRate / 100 / 12, with whole
\* dollars on both sides.
PaymentWithinInterest ==
    (monthlyPayment \div 100) * 120000 <= (loanBalance \div 100) * interestRate

\* C10: amortization infeasibility.  The simulation yields no result exactly
\* when the monthly rate is <= 0 or the payment is <= loanBalance times the
\* monthly rate; (300000, 6.5%, 1000, 0) yields none.
C10_Infeasibility ==
    sim.pc = "done" =>
    /\ (mortgageData = Null) <=> (interestRate <= 0 \/ PaymentWithinInterest)
    /\ (/\ loanBalance = Cents(300000)
        /\ interestRate = 650
        /\ monthlyPayment = Cents(1000)
        /\ extraPrincipal = 0) => mortgageData = Null

\* The inputs (300000, 6.5%, 1000, 0) are on display without a result.
C10_Witness ==
    /\ loanBalance = Cents(300000)
    /\ interestRate = 650
    /\ monthlyPayment = Cents(1000)
    /\ extraPrincipal = 0
    /\ sim.pc = "done"
    /\ mortgageData = Null

\* The inputs of the worked case: balance 300000, rate 6.5%, payment 2500
\* and 500 of extra principal.
AccelerationCase ==
    /\ loanBalance = Cents(300000)
    /\ interestRate = 650
    /\ monthlyPayment = Cents(2500)
    /\ extraPrincipal = Cents(500)

\* C11: amortization acceleration benefit.  For balance 300000, rate 6.5%,
\* payment 2500 and extra principal 500 the loop ends with fewer elapsed
\* months in the accelerated scenario than in the standard one, and the
\* result has timeSavedMonths > 0 and interestSaved > 0.
C11_AccelerationBenefit ==
    AccelerationCase =>
    /\ sim.pc = "return" => sim.sc2.months < sim.sc1.months
    /\ sim.pc = "done" => /\ mortgageData # Null
                          /\ mortgageData.timeSavedMonths > 0
                          /\ mortgageData.interestSaved > 0
                          /\ mortgageData.payoffYearsAccelerated < mortgageData.payoffYearsStandard

\* The result of the worked case is on display.
C11_Witness ==
    /\ AccelerationCase
    /\ sim.pc = "done"
    /\ mortgageData # Null
    /\ mortgageData.timeSavedMonths > 0

\* C15: negative input clamping.  In every reachable state each number the
\* calculators read (income, the two growth rates, loan balance, interest
\* rate, monthly payment, extra principal) is >= 0.
C15_InputsClamped ==
    /\ income >= 0
    /\ investReturnRatePercent >= 0
    /\ bankReturnRatePercent >= 0
    /\ loanBalance >= 0
    /\ interestRate >= 0
    /\ monthlyPayment >= 0
    /\ extraPrincipal >= 0

\* A simulation is under way or has just left the loop: sim holds the two
\* scenarios.
Simulating == sim.pc \in {"loop", "return"}

\* C21: amortization month cap.  The two schedules are simulated for at
\* most maxMonths = 720 months: neither elapsed-month counter ever exceeds
\* 720, for every feasible input.
C21_MonthCap ==
    Simulating => /\ sim.sc1.months <= maxMonths
                  /\ sim.sc2.months <= maxMonths

\* A month of the loop is about to run for a loan balance > 0.
LoopRuns == sim.pc = "loop" /\ loanBalance > 0

\* The series after the month that begins at a 12-month boundary: one more
\* point, labelled with the year index, holding both balances of that month
\* floored at 0 (in whole dollars, as the chart shows them).
BoundaryRecorded ==
    /\ Len(sim'.chartData) = Len(sim.chartData) + 1
    /\ sim'.chartData[Len(sim'.chartData)].year = sim.i \div 12
    /\ sim'.chartData[Len(sim'.chartData)].balanceStandard
           = (IF sim.sc1.b > 0 THEN round(sim.sc1.b) ELSE 0)
    /\ sim'.chartData[Len(sim'.chartData)].balanceAccelerated
           = (IF sim.sc2.b > 0 THEN round(sim.sc2.b) ELSE 0)
    /\ SubSeq(sim'.chartData, 1, Len(sim.chartData)) = sim.chartData

\* The series read at any moment of a simulation: the first point is Year 0
\* with both balances equal to the loan balance, and the labels are
\* consecutive.
SeriesInOrder ==
    (Simulating /\ loanBalance > 0) =>
    /\ \A k \in 1..Len(sim.chartData) : sim.chartData[k].year = k - 1
    /\ Len(sim.chartData) > 0 =>
           /\ sim.chartData[1].balanceStandard = round(loanBalance)
           /\ sim.chartData[1].balanceAccelerated = round(loanBalance)
    /\ sim.pc = "loop" => Len(sim.chartData) = (sim.i + 11) \div 12

FiguresReturned ==
    /\ mortgageData'.timeSavedMonths
           = (IF sim.sc1.months > sim.sc2.months
              THEN sim.sc1.months - sim.sc2.months ELSE 0)
    /\ mortgageData'.interestSaved
           = round(sim.sc1.totalInterest - sim.sc2.totalInterest)

\* The figures on display are not negative, and are 0 without extra
\* principal.
FiguresNonNegative ==
    (sim.pc = "done" /\ mortgageData # Null /\ extraPrincipal >= 0) =>
    /\ mortgageData.timeSavedMonths >= 0
    /\ mortgageData.interestSaved >= 0
    /\ extraPrincipal = 0 => /\ mortgageData.timeSavedMonths = 0
                             /\ mortgageData.interestSaved = 0

\* C24: savings figures.  For every feasible input with extra principal
\* >= 0, timeSavedMonths = max(0, standardMonths - acceleratedMonths) >= 0
\* and interestSaved = standardTotalInterest - acceleratedTotalInterest >= 0;
\* when extra principal is 0 both are exactly 0.
C24_SavingsFigures ==
    /\ []FiguresNonNegative
    /\ [][sim.pc = "return" => FiguresReturned]_vars

\* A loan that accrues interest is on display without extra principal, and
\* both figures are 0.
C24_Witness ==
    /\ sim.pc = "done"
    /\ mortgageData # Null
    /\ loanBalance > 0
    /\ extraPrincipal = 0
    /\ mortgageData.totalInterestStandard > 0
    /\ mortgageData.interestSaved = 0
    /\ mortgageData.timeSavedMonths = 0

\* A schedule whose balance has reached 0 is left as it is by a month of
\* the loop.
Frozen ==
    /\ sim.sc1.b <= 0 => sim'.sc1 = sim.sc1
    /\ sim.sc2.b <= 0 => sim'.sc2 = sim.sc2

\* The month in which a schedule's balance reaches 0 is the value of its
\* counter, and the loop is left in the month at the end of which both
\* balances are 0 (or at the month cap), not before.
StopsAtPayoff ==
    /\ (sim.sc1.b > 0 /\ sim'.sc1.b <= 0) => sim'.sc1.months = sim.i + 1
    /\ (sim.sc2.b > 0 /\ sim'.sc2.b <= 0) => sim'.sc2.months = sim.i + 1
    /\ (sim'.sc1.b <= 0 /\ sim'.sc2.b <= 0) => sim'.pc = "return"
    /\ sim'.pc = "return" =>
           \/ sim'.sc1.b <= 0 /\ sim'.sc2.b <= 0
           \/ sim.i >= maxMonths

\* C25: a paid-off schedule is frozen.  Once a schedule's balance reaches 0
\* its balance, accumulated interest and elapsed-month counter never change
\* again while the other schedule keeps running, and the loop stops in the
\* first month at the end of which both balances are 0, so each counter
\* equals that schedule's payoff month.
C25_PaidOffFrozen ==
    /\ [][sim.pc = "loop" => (Frozen /\ StopsAtPayoff)]_vars
    /\ [](sim.pc = "loop" => (sim.sc1.b > 0 \/ sim.sc2.b > 0 \/ sim.i = 0))

\* The accelerated schedule was paid off some months ago, its counter has
\* stopped, and the standard schedule is still running.
C25_Witness ==
    /\ sim.pc = "loop"
    /\ extraPrincipal > 0
    /\ sim.sc2.b = 0
    /\ sim.sc1.b > 0
    /\ sim.sc2.months + 12 < sim.i
    /\ sim.sc1.months = sim.i

\* A month of the loop lowers every balance that is left.
StrictlyDecreases ==
    /\ sim.sc1.b > 0 => sim'.sc1.b < sim.sc1.b
    /\ sim.sc2.b > 0 => sim'.sc2.b < sim.sc2.b

\* No balance is negative, and the accelerated schedule is never behind the
\* standard one.
BalancesInOrder ==
    (Simulating /\ loanBalance > 0 /\ extraPrincipal >= 0) =>
    /\ sim.sc1.b >= 0
    /\ sim.sc2.b >= 0
    /\ sim.sc2.b <= sim.sc1.b
    /\ sim.sc2.months <= sim.sc1.months

\* C27: amortization balance invariants.  For every feasible input with
\* loan balance > 0 and extra principal >= 0, each schedule's balance is
\* never negative and strictly decreases in every month in which it is
\* positive, and at every month the accelerated balance is <= the standard
\* balance (hence accelerated elapsed months <= standard elapsed months).
C27_BalanceInvariants ==
    /\ []BalancesInOrder
    /\ [][(LoopRuns /\ extraPrincipal >= 0) => StrictlyDecreases]_vars

-----------------------------------------------------------------------------
(* services/geminiService.ts (src/unnamed/part_001).  A call of one of the *)
(* three functions is modelled by the value its promise settles with,      *)
(* given whether the key is set and what ai.models.generateContent did:    *)
(* "text" (a response with text), "empty" (a response without text) or     *)
(* "throws".                                                               *)

Outcomes == {"text", "empty", "throws"}

\* if (!apiKey), lines 15, 64 and 114.
missingKey(key) == ~key

Fulfilled(value) == [settled |-> "fulfilled", value |-> value]
Rejected == [settled |-> "rejected"]

\* Mutant of getSmartFinancialAdvice: the catch block throws the error on.
getSmartFinancialAdviceRethrows(key, upstream) ==
    IF missingKey(key)
    THEN Fulfilled("API Key is missing. Please check your environment configuration.")
    ELSE IF upstream = "throws" THEN Rejected
    ELSE IF upstream = "empty" THEN Fulfilled("I couldn't generate advice at this moment.")
    ELSE Fulfilled("response.text")

\* getSmartFinancialAdvice, lines 10-57.
getSmartFinancialAdvice(key, upstream) ==
    IF missingKey(key)
    THEN Fulfilled("API Key is missing. Please check your environment configuration.")
    ELSE IF upstream = "throws"
    THEN Fulfilled("Sorry, I encountered an error while analyzing your budget.")
    ELSE IF upstream = "empty" THEN Fulfilled("I couldn't generate advice at this moment.")
    ELSE Fulfilled("response.text")

\* findHousingOptions, lines 59-108.
findHousingOptions(key, upstream) ==
    IF missingKey(key) THEN Fulfilled("API Key is missing.")
    ELSE IF upstream = "throws" THEN Fulfilled("Unable to search for housing at this time.")
    ELSE IF upstream = "empty" THEN Fulfilled("No listings found.")
    ELSE Fulfilled("response.text")

\* getDeepDivePlan, lines 110-144.
getDeepDivePlan(key, upstream) ==
    IF missingKey(key) THEN Fulfilled("API Key missing.")
    ELSE IF upstream = "throws"
    THEN Fulfilled("An error occurred while generating the deep dive plan. Please try again later.")
    ELSE IF upstream = "empty" THEN Fulfilled("Unable to generate plan.")
    ELSE Fulfilled("response.text")

\* The narratives the three functions return in place of an upstream text.
Placeholders ==
    {"API Key is missing. Please check your environment configuration.",
     "Sorry, I encountered an error while analyzing your budget.",
     "I couldn't generate advice at this moment.",
     "API Key is missing.",
     "Unable to search for housing at this time.",
     "No listings found.",
     "API Key missing.",
     "An error occurred while generating the deep dive plan. Please try again later.",
     "Unable to generate plan."}

-----------------------------------------------------------------------------
(* AiAdvisor (src/components/AiAdvisor.tsx:1-215) and the search of        *)
(* HousingSearch (src/components/HousingSearch.tsx:16-36), driven by the   *)
(* props App hands them.  Time advances in ticks of half a second.         *)

\* setTimeout(..., 1500), in ticks.
debounceTicks == 3

\* Bound on the user events explored: changes of income or state, and the
\* presses that start a deep dive or a search.
MaxEvents == 3

\* Incomes set through IncomeSection while the advisor is on display.
AdvisorIncomes == {Dollars(60000), Dollars(100000)}

\* Texts typed into the location field of HousingSearch.
Locations == {"", "California"}

\* The effect of lines 19-26 as run by a render with the props (inc, st,
\* allocations): the timer it sets calls the fetchAdvice of that render.
newTimer(id, inc, st, allocations) ==
    [id |-> id, remaining |-> debounceTicks, income |-> inc, state |-> st,
     allocations |-> allocations]

Counted(name) == [hist EXCEPT ![name] = @ + 1]

\* An async handler whose await rejects ends in an unhandled rejection.
Settled(h, r) == IF r.settled = "rejected" THEN [h EXCEPT !.rejections = @ + 1] ELSE h

\* What a handler displays once its await settles: the response to request
\* id, with what upstream did; a rejection leaves the handler before the
\* setter and the displayed value stays.
Shown(r, id, upstream, current) ==
    IF r.settled = "fulfilled"
    THEN [request |-> id, upstream |-> upstream, markdown |-> r.value]
    ELSE current

\* App has run calculateBudget for the initial income and state, and the
\* first render of AiAdvisor and HousingSearch has run its effect.
InitAi ==
    /\ income = Dollars(60000)
    /\ selectedState = "California"
    /\ budgetData = calculateBudget(income, selectedState)
    /\ effectPending = FALSE
    /\ edits = 0
    /\ last = [kind |-> "none"]
    /\ ChartIdle
    /\ MortgageIdle
    /\ apiKey \in BOOLEAN
    /\ upstreamCalls = 0
    /\ timers = {newTimer(0, income, selectedState, budgetData.allocations)}
    /\ inFlight = {}
    /\ advice = Null
    /\ loading = FALSE
    /\ deepInFlight = {}
    /\ deepPlan = Null
    /\ deepLoading = FALSE
    /\ location = selectedState
    /\ searchInFlight = {}
    /\ results = Null
    /\ searchLoading = FALSE
    /\ hist = [changes |-> 0, issued |-> 0, sinceChange |-> 0, issuedSinceChange |-> 0,
               events |-> 0, searches |-> 0, rejections |-> 0]

\* Mutant of debounce: the effect without its cleanup, so the timer of the
\* previous render stays.
debounceWithoutCleanup(pending, id, inc, st, allocations) ==
    pending \cup {newTimer(id, inc, st, allocations)}

\* The effect of lines 19-26 on a change of [income, state]: the cleanup of
\* the previous run clears its timer and the new run sets one.
debounce(pending, id, inc, st, allocations) ==
    {newTimer(id, inc, st, allocations)}

\* A render of App with a new income or state: AiAdvisor renders with the
\* new income and state and the allocations budgetData still holds, its
\* effect runs, and then the effect of App replaces budgetData
\* (src/App.tsx:17-20).
propsChange(inc, st) ==
    /\ hist.events < MaxEvents
    /\ income' = inc
    /\ selectedState' = st
    /\ timers' = debounce(timers, hist.changes + 1, inc, st, budgetData.allocations)
    /\ budgetData' = calculateBudget(inc, st)
    /\ hist' = [hist EXCEPT !.events = @ + 1, !.changes = @ + 1, !.sinceChange = 0,
                           !.issuedSinceChange = 0]
    /\ UNCHANGED <<apiKey, upstreamCalls, inFlight, advice, loading, deepInFlight, deepPlan,
                   deepLoading, location, searchInFlight, results, searchLoading>>
    /\ UNCHANGED notAiVars

\* IncomeSection: setIncome(v) with a new value.
changeIncome(v) ==
    /\ v # income
    /\ propsChange(v, selectedState)

\* IncomeSection: setSelectedState(s) with a new value.
changeState(s) ==
    /\ s # selectedState
    /\ propsChange(income, s)

\* Half a second passes while a timer is pending and none is due.
tick ==
    /\ timers # {}
    /\ \A t \in timers : t.remaining > 0
    /\ timers' = {[t EXCEPT !.remaining = @ - 1] : t \in timers}
    /\ hist' = Counted("sinceChange")
    /\ UNCHANGED <<income, selectedState, budgetData, apiKey, upstreamCalls, inFlight, advice,
                   loading, deepInFlight, deepPlan, deepLoading, location, searchInFlight,
                   results, searchLoading>>
    /\ UNCHANGED notAiVars

\* setLoading(false) after the await, which a rejection does not reach.
loadingAfter(r, flag) == IF r.settled = "fulfilled" THEN FALSE ELSE flag

\* A due timer runs the fetchAdvice of its render, lines 28-30:
\* setLoading(true) and the call of getSmartFinancialAdvice, which returns
\* at once without a key and calls upstream with one.
timerFires ==
    /\ \E t \in timers :
        /\ t.remaining = 0
        /\ timers' = timers \ {t}
        /\ LET id == hist.issued + 1
               request == [id |-> id, income |-> t.income, state |-> t.state,
                           allocations |-> t.allocations]
               issuedNow == [hist EXCEPT !.issued = id, !.issuedSinceChange = @ + 1]
           IN IF missingKey(apiKey)
              THEN LET r == getSmartFinancialAdvice(apiKey, "none") IN
                   /\ advice' = Shown(r, id, "none", advice)
                   /\ loading' = loadingAfter(r, TRUE)
                   /\ hist' = Settled(issuedNow, r)
                   /\ UNCHANGED <<inFlight, upstreamCalls>>
              ELSE /\ inFlight' = inFlight \cup {request}
                   /\ loading' = TRUE
                   /\ upstreamCalls' = upstreamCalls + 1
                   /\ hist' = issuedNow
                   /\ UNCHANGED advice
    /\ UNCHANGED <<income, selectedState, budgetData, apiKey, deepInFlight, deepPlan,
                   deepLoading, location, searchInFlight, results, searchLoading>>
    /\ UNCHANGED notAiVars

\* The upstream call of a quick-advice request settles, in any order, and
\* fetchAdvice resumes: setAdvice(result); setLoading(false).
adviceSettles ==
    /\ \E request \in inFlight : \E upstream \in Outcomes :
        LET r == getSmartFinancialAdvice(apiKey, upstream) IN
        /\ inFlight' = inFlight \ {request}
        /\ advice' = Shown(r, request.id, upstream, advice)
        /\ loading' = loadingAfter(r, loading)
        /\ hist' = Settled(hist, r)
    /\ UNCHANGED <<income, selectedState, budgetData, apiKey, upstreamCalls, timers,
                   deepInFlight, deepPlan, deepLoading, location, searchInFlight, results,
                   searchLoading>>
    /\ UNCHANGED notAiVars

\* The "Generate 20-Year Plan" button, lines 35-37 and 188-191: shown while
\* there is no plan and disabled while deepLoading.
handleDeepDive ==
    /\ hist.events < MaxEvents
    /\ deepPlan = Null
    /\ ~deepLoading
    /\ IF missingKey(apiKey)
       THEN LET r == getDeepDivePlan(apiKey, "none") IN
            /\ deepPlan' = Shown(r, hist.events + 1, "none", deepPlan)
            /\ deepLoading' = loadingAfter(r, TRUE)
            /\ hist' = Settled(Counted("events"), r)
            /\ UNCHANGED <<deepInFlight, upstreamCalls>>
       ELSE /\ deepInFlight' = deepInFlight \cup 
                   {[id |-> hist.events + 1, income |-> income, state |-> selectedState]}
            /\ deepLoading' = TRUE
            /\ upstreamCalls' = upstreamCalls + 1
            /\ hist' = Counted("events")
            /\ UNCHANGED deepPlan
    /\ UNCHANGED <<income, selectedState, budgetData, apiKey, timers, inFlight, advice, loading,
                   location, searchInFlight, results, searchLoading>>
    /\ UNCHANGED notAiVars

\* The upstream call of a deep dive settles and handleDeepDive resumes,
\* lines 38-39: setDeepPlan(plan); setDeepLoading(false).
deepDiveSettles ==
    /\ \E request \in deepInFlight : \E upstream \in Outcomes :
        LET r == getDeepDivePlan(apiKey, upstream) IN
        /\ deepInFlight' = deepInFlight \ {request}
        /\ deepPlan' = Shown(r, request.id, upstream, deepPlan)
        /\ deepLoading' = loadingAfter(r, deepLoading)
        /\ hist' = Settled(hist, r)
    /\ UNCHANGED <<income, selectedState, budgetData, apiKey, upstreamCalls, timers, inFlight,
                   advice, loading, location, searchInFlight, results, searchLoading>>
    /\ UNCHANGED notAiVars

\* The close button of the plan, line 205: onClick={() => setDeepPlan(null)}.
closeDeepPlan ==
    /\ deepPlan # Null
    /\ deepPlan' = Null
    /\ UNCHANGED <<income, selectedState, budgetData, apiKey, upstreamCalls, timers, inFlight,
                   advice, loading, deepInFlight, deepLoading, location, searchInFlight,
                   results, searchLoading, hist>>
    /\ UNCHANGED notAiVars

\* HousingSearch: onChange={(e) => setLocation(e.target.value)}
setLocation(text) ==
    /\ text # location
    /\ location' = text
    /\ UNCHANGED <<income, selectedState, budgetData, apiKey, upstreamCalls, timers, inFlight,
                   advice, loading, deepInFlight, deepPlan, deepLoading, searchInFlight,
                   results, searchLoading, hist>>
    /\ UNCHANGED notAiVars

\* HousingSearch.handleSearch, lines 29-32: nothing without a location,
\* else setLoading(true) and the call of findHousingOptions.
handleSearch ==
    /\ hist.events < MaxEvents
    /\ IF location = ""
       THEN /\ hist' = Counted("events")
            /\ UNCHANGED <<searchInFlight, results, searchLoading, upstreamCalls>>
       ELSE LET id == hist.searches + 1
                started == [hist EXCEPT !.events = @ + 1, !.searches = id]
            IN IF missingKey(apiKey)
               THEN LET r == findHousingOptions(apiKey, "none") IN
                    /\ results' = Shown(r, id, "none", results)
                    /\ searchLoading' = loadingAfter(r, TRUE)
                    /\ hist' = Settled(started, r)
                    /\ UNCHANGED <<searchInFlight, upstreamCalls>>
               ELSE /\ searchInFlight' = searchInFlight \cup {[id |-> id, location |-> location]}
                    /\ searchLoading' = TRUE
                    /\ upstreamCalls' = upstreamCalls + 1
                    /\ hist' = started
                    /\ UNCHANGED results
    /\ UNCHANGED <<income, selectedState, budgetData, apiKey, timers, inFlight, advice, loading,
                   deepInFlight, deepPlan, deepLoading, location>>
    /\ UNCHANGED notAiVars

\* The Search button, lines 236-238: onClick={handleSearch}, disabled={loading}.
clickSearch ==
    /\ ~searchLoading
    /\ handleSearch

\* The location field, line 217: onKeyDown={(e) => e.key === 'Enter' && handleSearch()}.
pressEnter ==
    /\ TRUE
    /\ handleSearch

\* The upstream call of a search settles and handleSearch resumes, lines
\* 33-35: setResults(data); setIsExpanded(true); setLoading(false).
searchSettles ==
    /\ \E request \in searchInFlight : \E upstream \in Outcomes :
        LET r == findHousingOptions(apiKey, upstream) IN
        /\ searchInFlight' = searchInFlight \ {request}
        /\ results' = Shown(r, request.id, upstream, results)
        /\ searchLoading' = loadingAfter(r, searchLoading)
        /\ hist' = Settled(hist, r)
    /\ UNCHANGED <<income, selectedState, budgetData, apiKey, upstreamCalls, timers, inFlight,
                   advice, loading, deepInFlight, deepPlan, deepLoading, location>>
    /\ UNCHANGED notAiVars

NextAi ==
    \/ \E v \in AdvisorIncomes : changeIncome(v)
    \/ \E s \in StateNames : changeState(s)
    \/ tick
    \/ timerFires
    \/ adviceSettles
    \/ handleDeepDive
    \/ deepDiveSettles
    \/ closeDeepPlan
    \/ \E text \in Locations : setLocation(text)
    \/ clickSearch
    \/ pressEnter
    \/ searchSettles

SpecAi == InitAi /\ [][NextAi]_vars

-----------------------------------------------------------------------------
(* Properties of the AI advisor and the housing search *)

\* C12: superseded advice is discarded.  A response to an older quick-advice
\* request that arrives after the response to a newer one does not replace
\* the advice on display: once no request is in flight, the advice shown
\* is the response to the request issued last.
C12_SupersededAdviceDiscarded ==
    (hist.issued > 0 /\ inFlight = {}) =>
        /\ advice # Null
        /\ advice.request = hist.issued

\* C13: debounce.  At most one timer is pending; a quick-advice request is
\* issued only once 1.5 s have passed since the latest change of income or
\* state, and at most once per change; when the timer of the latest change
\* has run, exactly one request has been issued since that change, so a
\* burst of changes less than 1.5 s apart issues one request, after the last.
C13_Debounce ==
    /\ Cardinality(timers) <= 1
    /\ hist.issuedSinceChange <= 1
    /\ hist.issuedSinceChange > 0 => hist.sinceChange >= debounceTicks
    /\ timers # {} => hist.issuedSinceChange = 0
    /\ timers = {} => hist.issuedSinceChange = 1
    /\ hist.issued <= hist.changes + 1

\* Two changes followed the mount less than 1.5 s apart, and the only
\* request of the run was issued 1.5 s after the second.
C13_Witness ==
    /\ hist.changes = 2
    /\ hist.issued = 1
    /\ hist.issuedSinceChange = 1
    /\ hist.sinceChange = debounceTicks
    /\ timers = {}

\* A value on display that came from a call whose upstream request threw.
ShownAfterThrow(shown) == shown # Null /\ shown.upstream = "throws"

\* A value on display is a placeholder narrative.
ShowsPlaceholder(shown) == shown # Null /\ shown.markdown \in Placeholders

\* C14: AI service degradation.  No call of getSmartFinancialAdvice,
\* findHousingOptions or getDeepDivePlan rejects; without an API key no
\* upstream call is made and what is displayed is a placeholder narrative;
\* a call whose upstream request threw displays a placeholder narrative;
\* and with no request of a kind in flight the loading flag of its caller
\* is false.
C14_ServiceDegradation ==
    /\ hist.rejections = 0
    /\ ~apiKey => /\ upstreamCalls = 0
                  /\ inFlight = {} /\ deepInFlight = {} /\ searchInFlight = {}
                  /\ \A shown \in {advice, deepPlan, results} :
                         shown # Null => ShowsPlaceholder(shown)
    /\ \A shown \in {advice, deepPlan, results} :
           ShownAfterThrow(shown) => ShowsPlaceholder(shown)
    /\ inFlight = {} => ~loading
    /\ deepInFlight = {} => ~deepLoading
    /\ searchInFlight = {} => ~searchLoading

\* With a key, the upstream request of each of the three functions threw,
\* the three placeholders are on display and nothing is loading.
C14_Witness ==
    /\ apiKey
    /\ ShownAfterThrow(advice)
    /\ ShownAfterThrow(deepPlan)
    /\ ShownAfterThrow(results)
    /\ inFlight = {} /\ deepInFlight = {} /\ searchInFlight = {}
    /\ ~loading /\ ~deepLoading /\ ~searchLoading

\* C28: the advice request payload is current.  Every quick-advice request
\* passes to getSmartFinancialAdvice the income and state of the moment it
\* fires and the allocations budgetData holds for them at that moment, not
\* the allocations computed for the previous income or state.
C28_PayloadCurrent ==
    [][\A request \in inFlight' \ inFlight :
           /\ request.income = income
           /\ request.state = selectedState
           /\ request.allocations = budgetData.allocations]_vars

\* C29: a single housing search in flight.  While a search is loading no
\* user action starts another findHousingOptions call: at most one search
\* request is in flight at any time, and once none is in flight the results
\* on display are those of the latest search started.
C29_SingleSearchInFlight ==
    /\ Cardinality(searchInFlight) <= 1
    /\ (searchInFlight = {} /\ hist.searches > 0) =>
           /\ results # Null
           /\ results.request = hist.searches

\* C30: the quick-advice loading flag is accurate.  In every reachable state
\* of AiAdvisor loading is true whenever at least one quick-advice request
\* is in flight, and false only when none remains in flight.
C30_LoadingAccurate ==
    loading <=> inFlight # {}

=============================================================================
